---- MODULE Spec2Model ----
(***************************************************************************)
(* Named (server-side) cursors of psycopg3: the generators of              *)
(* NamedCursorHelper, the blocking facade NamedCursor and the cooperative  *)
(* facade AsyncNamedCursor, run by two callers that share one connection.  *)
(*                                                                         *)
(* Each caller owns one cursor object; both objects carry the same cursor  *)
(* name, so one of them can adopt the portal the other declared.  A facade *)
(* call is a sequence of steps: the call itself, entering the              *)
(* `with self._conn.lock` block, the steps of the generator (code before   *)
(* the first send, one step per send, one step per drained result), and    *)
(* leaving the block, which also runs the code that follows it.            *)
(*                                                                         *)
(* Three specifications share the state: Spec (two callers, any calls),    *)
(* SpecScript (one caller running a call sequence of the tests, up to the  *)
(* destruction of its cursor object) and SpecPq (the PGconn object of the  *)
(* libpq binding: exec_, finish and its destructor).                       *)
(***************************************************************************)
EXTENDS Integers, Sequences, FiniteSets, TLC

\* Rows of the result set a declared query produces (rows are 1..NRows).
NRows == 3
\* Facade calls the two callers make in one run.
MaxCalls == 3
\* The local row offset is kept within -MaxPos..MaxPos by the guards.
MaxPos == NRows + 1
\* itersize the callers set before iterating (cur.itersize = 2).
IterSize == 2

Callers == {1, 2}
Kinds == {"sync", "async"}
Modes == {"relative", "absolute", "wat"}
ScrollValues == {0 - 1, 0, 1}
FetchSizes == {2}
FetchOps == {"fetchone", "fetchmany", "fetchall"}

VARIABLES
    kind,        \* facade of the connection's cursors: NamedCursor or AsyncNamedCursor
    lock,        \* conn.lock: 0 when free, else the caller holding it
    wire,        \* commands sent on the connection whose results are not drained yet
    broken,      \* the connection has had an I/O error
    portal,      \* the server's portal of the cursors' name
    closed,      \* cur._closed, per cursor object
    described,   \* helper.described, per cursor object
    pos,         \* cur._pos, per cursor object
    pc,          \* where each caller is in its facade call
    call,        \* the call each caller is in (or made last) and what it has done
    todo,        \* the steps left of the generator the caller is driving
    exc,         \* the exception the generator raised ("" for none)
    recs,        \* the rows the generator returned
    ncalls,      \* facade calls made so far
    given,       \* rows handed to the caller since its cursor's last successful
                 \* execute; -1 before it and once a scroll was called
    script,      \* the calls a scripted caller makes, in order (<<>>: any calls)
    warned,      \* what the destruction of each cursor object emitted
    pgconn_ptr,  \* PGconn.pgconn_ptr: the libpq handle, 0 for None
    ptr0,        \* the handle the PGconn was constructed with
    finish_p,    \* the local p of a running finish()
    pqpc,        \* where the PGconn's owner is: idle, in finish(), in __del__, gone
    finished,    \* the handles PQfinish was called on, in order
    pgres,       \* the last exec_: <<command, PQexec's value, what exec_ returned (a
                 \* result's status) or raised>>; <<>> before the first one
    pqlog        \* the PGconn methods called so far

vars == <<kind, lock, wire, broken, portal, closed, described, pos,
          pc, call, todo, exc, recs, ncalls, given, script, warned,
          pgconn_ptr, ptr0, finish_p, pqpc, finished, pgres, pqlog>>

\* The named cursors' part of the state and the libpq binding's part.
curvars == <<kind, lock, wire, broken, portal, closed, described, pos,
             pc, call, todo, exc, recs, ncalls, given, script, warned>>
pqvars == <<pgconn_ptr, ptr0, finish_p, pqpc, finished, pgres, pqlog>>

-----------------------------------------------------------------------------
(* Commands, as composed by the helper.  num and the scroll value are the   *)
(* arguments; Optional[int] is a sequence of length at most one.            *)

NoCmd == [tag |-> "", mod |-> "", n |-> 0]

\* Faulty variant: execute adopts the portal of its name instead of declaring one.
DeclareCmd_adopt(scrollable) == [tag |-> "describe", mod |-> "", n |-> 0]

\* Faulty variant: every cursor is declared scrollable.
DeclareCmd_always_scroll(scrollable) == [tag |-> "declare", mod |-> "scroll", n |-> 0]

DeclareCmd(scrollable) ==
    [tag |-> "declare", mod |-> IF scrollable THEN "scroll" ELSE "no scroll", n |-> 0]

DescribeCmd == [tag |-> "describe", mod |-> "", n |-> 0]

\* Faulty variant: every fetch asks for all the rows.
FetchCmd_all(num) == [tag |-> "fetch", mod |-> "all", n |-> 0]

FetchCmd(num) ==
    IF num # <<>> THEN [tag |-> "fetch", mod |-> "", n |-> num[1]]
    ELSE [tag |-> "fetch", mod |-> "all", n |-> 0]

\* Faulty variant: the sign of the scroll value is lost.
MoveCmd_unsigned(value, mode) ==
    [tag |-> "move", mod |-> IF mode = "absolute" THEN "absolute" ELSE "",
     n |-> IF value < 0 THEN 0 - value ELSE value]

MoveCmd(value, mode) ==
    [tag |-> "move", mod |-> IF mode = "absolute" THEN "absolute" ELSE "", n |-> value]

CloseCmd == [tag |-> "close", mod |-> "", n |-> 0]

-----------------------------------------------------------------------------
(* Generator steps.  Record fields are written in one fixed order           *)
(* throughout the module.                                                   *)

Snd(cmd) == [cmd |-> cmd, k |-> "send"]
Rcv == [cmd |-> NoCmd, k |-> "recv"]
StartQuery == [cmd |-> NoCmd, k |-> "start_query"]
CheckMode == [cmd |-> NoCmd, k |-> "check_mode"]

\* conn._exec_command(query): send the query, drain its results.
exec_command(cmd) == <<Snd(cmd), Rcv>>

describe_gen == <<Snd(DescribeCmd), Rcv>>

\* Faulty variant: the describe is sent before the declare's results are drained.
declare_gen_pipelined(scrollable) ==
    <<StartQuery, Snd(DeclareCmd(scrollable)), Snd(DescribeCmd), Rcv, Rcv>>

\* Faulty variant: execute returns after the declare, without describing the portal.
declare_gen_no_describe(scrollable) ==
    <<StartQuery, Snd(DeclareCmd(scrollable)), Rcv>>

declare_gen(scrollable) ==
    <<StartQuery, Snd(DeclareCmd(scrollable)), Rcv>> \o describe_gen

close_gen == exec_command(CloseCmd)

\* Faulty variant: the fetch is sent without making sure the shape is known.
fetch_gen_no_describe(isDescribed, num) == exec_command(FetchCmd(num))

\* Faulty variant: every fetch describes the portal again.
fetch_gen_always_describe(isDescribed, num) ==
    <<StartQuery>> \o describe_gen \o exec_command(FetchCmd(num))

\* Faulty variant: a described cursor answers a fetch locally, with no round trip.
fetch_gen_cached(isDescribed, num) ==
    IF ~isDescribed THEN <<StartQuery>> \o describe_gen \o exec_command(FetchCmd(num))
    ELSE <<>>

fetch_gen(isDescribed, num) ==
    (IF ~isDescribed THEN <<StartQuery>> \o describe_gen ELSE <<>>)
        \o exec_command(FetchCmd(num))

\* Faulty variant: the mode is not checked before the move is sent.
scroll_gen_no_check(value, mode) == exec_command(MoveCmd(value, mode))

scroll_gen(value, mode) == <<CheckMode>> \o exec_command(MoveCmd(value, mode))

\* The mode test of _scroll_gen.
ModeOk(mode) == mode \in {"relative", "absolute"}

-----------------------------------------------------------------------------
(* The server's side of one command on the portal.                          *)

Min(a, b) == IF a < b THEN a ELSE b
Max(a, b) == IF a > b THEN a ELSE b
Range(a, b) == [i \in 1 .. (IF b >= a THEN b - a + 1 ELSE 0) |-> a + i - 1]

NoPortal == [exists |-> FALSE, p |-> 0, scroll |-> FALSE]

Fatal(pt) == [portal |-> pt, status |-> "FATAL_ERROR", rows |-> <<>>]
CommandOk(pt) == [portal |-> pt, status |-> "COMMAND_OK", rows |-> <<>>]

\* The position an absolute move asks for: row n, or one end when out of range.
AbsTarget(n) ==
    IF n >= 0 THEN (IF n > NRows THEN NRows + 1 ELSE n)
    ELSE Max(NRows + 1 + n, 0)

ServerDeclare(cmd, pt) ==
    IF pt.exists THEN Fatal(pt)
    ELSE CommandOk([exists |-> TRUE, p |-> 0, scroll |-> cmd.mod = "scroll"])

ServerDescribe(cmd, pt) == IF pt.exists THEN CommandOk(pt) ELSE Fatal(pt)

ServerFetch(cmd, pt) ==
    IF ~pt.exists THEN Fatal(pt)
    ELSE LET last == IF cmd.mod = "all" THEN NRows ELSE Min(pt.p + cmd.n, NRows)
             newp == IF cmd.mod = "all" \/ pt.p + cmd.n > NRows
                     THEN NRows + 1 ELSE pt.p + cmd.n
         IN  [portal |-> [pt EXCEPT !.p = newp],
              status |-> "TUPLES_OK", rows |-> Range(pt.p + 1, last)]

ServerMove(cmd, pt) ==
    IF ~pt.exists THEN Fatal(pt)
    ELSE LET newp == IF cmd.mod = "absolute" THEN AbsTarget(cmd.n)
                     ELSE IF cmd.n >= 0 THEN Min(pt.p + cmd.n, NRows + 1)
                     ELSE Max(pt.p + cmd.n, 0)
         IN  IF newp < pt.p /\ ~pt.scroll THEN Fatal(pt)
             ELSE CommandOk([pt EXCEPT !.p = newp])

ServerClose(cmd, pt) == IF pt.exists THEN CommandOk(NoPortal) ELSE Fatal(pt)

Server(cmd, pt) ==
    CASE cmd.tag = "declare" -> ServerDeclare(cmd, pt)
      [] cmd.tag = "describe" -> ServerDescribe(cmd, pt)
      [] cmd.tag = "fetch" -> ServerFetch(cmd, pt)
      [] cmd.tag = "move" -> ServerMove(cmd, pt)
      [] OTHER -> ServerClose(cmd, pt)

-----------------------------------------------------------------------------
(* The facades.                                                             *)

\* Faulty variant: execute() drives its generator without taking the lock.
LockedOps_no_execute ==
    {"fetchone", "fetchmany", "fetchall", "iter", "scroll", "close", "__exit__"}

\* Faulty variant: scroll() drives its generator without taking the lock.
LockedOps_no_scroll ==
    {"execute", "fetchone", "fetchmany", "fetchall", "iter", "close", "__exit__"}

\* The facade methods that run their generator inside `with self._conn.lock`.
LockedOps ==
    {"execute", "fetchone", "fetchmany", "fetchall", "iter", "scroll", "close", "__exit__"}

\* __exit__ / __aexit__ call close(), whatever ended the body of the block.
CloseOps == {"close", "__exit__"}

\* Faulty variant: the lock stays with the caller when the block is left.
with_exit_keep(t, e) == t

\* Faulty variant: the lock is released only when the block ends without exception.
with_exit_no_finally(t, e) == IF e = "" THEN 0 ELSE t

\* The lock's holder after the `with` block is left, with or without an exception.
with_exit(t, e) == 0

\* The generator a facade method hands to conn.wait().
GenOf(t, op) ==
    CASE op.name = "execute" -> declare_gen(op.scrollable)
      [] op.name = "fetchone" -> fetch_gen(described[t], <<1>>)
      [] op.name = "fetchmany" -> fetch_gen(described[t], <<op.n>>)
      [] op.name = "fetchall" -> fetch_gen(described[t], <<>>)
      [] op.name = "iter" -> fetch_gen(described[t], <<IterSize>>)
      [] op.name = "scroll" -> scroll_gen(op.n, op.mode)
      [] OTHER -> close_gen

\* cur._pos after scroll() returns.
scroll_pos(k, p, value, mode) ==
    IF k = "sync" THEN (IF mode = "relative" THEN p + value ELSE value) ELSE p

\* Faulty variant: a fetchone that returns None advances the offset as well.
fetch_pos_none_counts(name, p, rs) ==
    IF name = "fetchone" THEN p + 1 ELSE p + Len(rs)

\* cur._pos after fetchone/fetchmany/fetchall return.
fetch_pos(name, p, rs) ==
    IF name = "fetchone" THEN (IF rs # <<>> THEN p + 1 ELSE p) ELSE p + Len(rs)

\* Faulty variant: the offset is updated whether or not the call raised.
pos_after_always(ok, old, new) == new

\* cur._pos after a facade method: the update follows the `with` block, so it
\* is reached only when the block was left without an exception.
pos_after(ok, old, new) == IF ok THEN new ELSE old

\* cur._closed after close() ran to the statement that follows its `with` block.
close_closed(e, c) == IF e = "" THEN TRUE ELSE c

Op(name, n, mode, scrollable) ==
    [n |-> n, scrollable |-> scrollable, mode |-> mode, name |-> name]

NewCall(t, op) ==
    [rows |-> <<>>, op |-> op, outcome |-> "running", cmds |-> <<>>, batch |-> 0,
     pos0 |-> pos[t], closed0 |-> closed[t], described0 |-> described[t]]

Idle(t) == pc[t] = "idle"

\* The calls one run may make: the script's length for a scripted caller.
Budget == IF script = <<>> THEN MaxCalls ELSE Len(script)

\* `with self._conn.lock:` as entered by method name: the lock is taken when free.
with_enter(t, name) ==
    IF name \in LockedOps THEN lock = 0 /\ lock' = t ELSE UNCHANGED lock

\* A facade method is called: it enters its `with` block and creates its generator.
Begin(t, op) ==
    /\ Idle(t)
    /\ ncalls < Budget
    /\ ncalls' = ncalls + 1
    /\ with_enter(t, op.name)
    /\ pc' = [pc EXCEPT ![t] = "gen"]
    /\ call' = [call EXCEPT ![t] = NewCall(t, op)]
    /\ todo' = [todo EXCEPT ![t] = GenOf(t, op)]
    /\ exc' = [exc EXCEPT ![t] = ""]
    /\ recs' = [recs EXCEPT ![t] = <<>>]
    /\ UNCHANGED pqvars
    /\ UNCHANGED <<kind, wire, broken, portal, closed, described, pos, given, script, warned>>

execute(t) == \E s \in BOOLEAN : Begin(t, Op("execute", 0, "", s))

fetchone(t) == pos[t] + 1 <= MaxPos /\ Begin(t, Op("fetchone", 1, "", FALSE))

fetchmany(t) ==
    \E size \in FetchSizes :
        pos[t] + size <= MaxPos /\ Begin(t, Op("fetchmany", size, "", FALSE))

fetchall(t) == pos[t] + NRows <= MaxPos /\ Begin(t, Op("fetchall", 0, "", FALSE))

iter(t) == pos[t] + NRows <= MaxPos /\ Begin(t, Op("iter", IterSize, "", FALSE))

scroll(t) ==
    \E value \in ScrollValues, mode \in Modes :
        /\ scroll_pos("sync", pos[t], value, mode) \in (0 - MaxPos) .. MaxPos
        /\ Begin(t, Op("scroll", value, mode, FALSE))

close(t) == Begin(t, Op("close", 0, "", FALSE))

\* cur._execute_results(results) and conn._exec_command() raise the server's
\* error when the command's result is a fatal one.
execute_results_raises(res) == res.status = "FATAL_ERROR"

Running(t) == pc[t] = "gen" /\ exc[t] = "" /\ todo[t] # <<>>

Raise(t, e) ==
    /\ exc' = [exc EXCEPT ![t] = e]
    /\ todo' = [todo EXCEPT ![t] = <<>>]

\* cur._start_query(): a closed cursor refuses to start a query.  The method
\* belongs to BaseCursor; only its contract toward the named cursor is modelled
\* (no transaction is opened and the row offset is left alone).
start_query(t) ==
    /\ Running(t) /\ Head(todo[t]).k = "start_query"
    /\ IF closed[t] THEN Raise(t, "InterfaceError")
       ELSE todo' = [todo EXCEPT ![t] = Tail(@)] /\ UNCHANGED exc
    /\ UNCHANGED pqvars
    /\ UNCHANGED <<kind, lock, wire, broken, portal, closed, described, pos, pc, call, recs, ncalls, given, script, warned>>

\* The first statement of _scroll_gen.
check_mode(t) ==
    /\ Running(t) /\ Head(todo[t]).k = "check_mode"
    /\ IF ~ModeOk(call[t].op.mode) THEN Raise(t, "ValueError")
       ELSE todo' = [todo EXCEPT ![t] = Tail(@)] /\ UNCHANGED exc
    /\ UNCHANGED pqvars
    /\ UNCHANGED <<kind, lock, wire, broken, portal, closed, described, pos, pc, call, recs, ncalls, given, script, warned>>

\* pgconn.send_query / send_describe_portal / cur._execute_send.
Send(t) ==
    /\ Running(t) /\ Head(todo[t]).k = "send"
    /\ wire' = Append(wire, [cmd |-> Head(todo[t]).cmd, by |-> t])
    /\ call' = [call EXCEPT ![t].cmds = Append(@, Head(todo[t]).cmd)]
    /\ todo' = [todo EXCEPT ![t] = Tail(@)]
    /\ UNCHANGED pqvars
    /\ UNCHANGED <<kind, lock, broken, portal, closed, described, pos, pc, exc, recs, ncalls, given, script, warned>>

\* execute(conn.pgconn) returns the results of the oldest command on the wire,
\* and the generator interprets them up to its next send.
RecvResult(t) ==
    /\ Running(t) /\ Head(todo[t]).k = "recv"
    /\ wire # <<>> /\ ~broken
    /\ LET cmd == Head(wire).cmd
           res == Server(cmd, portal)
       IN  /\ portal' = res.portal
           /\ wire' = Tail(wire)
           /\ IF execute_results_raises(res)
              THEN /\ Raise(t, "DatabaseError")
                   /\ UNCHANGED <<described, recs>>
              ELSE /\ todo' = [todo EXCEPT ![t] = Tail(@)]
                   /\ described' = [described EXCEPT
                                      ![t] = IF cmd.tag = "describe" THEN TRUE ELSE @]
                   /\ recs' = [recs EXCEPT
                                 ![t] = IF cmd.tag = "fetch" THEN res.rows ELSE @]
                   /\ UNCHANGED exc
    /\ UNCHANGED pqvars
    /\ UNCHANGED <<kind, lock, broken, closed, pos, pc, call, ncalls, given, script, warned>>

\* execute(conn.pgconn) fails with an I/O error: the connection is lost.
RecvIOError(t) ==
    /\ Running(t) /\ Head(todo[t]).k = "recv"
    /\ wire # <<>>
    /\ broken' = TRUE
    /\ wire' = Tail(wire)
    /\ Raise(t, "OperationalError")
    /\ UNCHANGED pqvars
    /\ UNCHANGED <<kind, lock, portal, closed, described, pos, pc, call, recs, ncalls, given, script, warned>>

Finished(t) == pc[t] = "gen" /\ (exc[t] # "" \/ todo[t] = <<>>)

\* The `with` block is left and the method runs to its return or raise.
Exit(t) ==
    /\ Finished(t)
    /\ LET op == call[t].op
           ok == exc[t] = ""
       IN  /\ lock' = IF op.name \in LockedOps THEN with_exit(t, exc[t]) ELSE lock
           /\ closed' = [closed EXCEPT
                           ![t] = IF op.name \in CloseOps THEN close_closed(exc[t], @) ELSE @]
           /\ pos' = [pos EXCEPT
                        ![t] = pos_after(ok, @,
                                   IF op.name \in FetchOps THEN fetch_pos(op.name, @, recs[t])
                                   ELSE IF op.name = "scroll"
                                        THEN scroll_pos(kind, @, op.n, op.mode)
                                   ELSE @)]
           /\ call' = [call EXCEPT
                         ![t].outcome = IF ~ok THEN exc[t]
                                        ELSE IF op.name = "iter" THEN "running" ELSE "ok",
                         ![t].rows = IF ok /\ op.name \in FetchOps THEN recs[t] ELSE @,
                         ![t].batch = IF ok THEN Len(recs[t]) ELSE @]
           /\ pc' = [pc EXCEPT ![t] = IF ok /\ op.name = "iter" THEN "yield" ELSE "idle"]
           /\ given' = [given EXCEPT
                          ![t] = IF op.name = "scroll" THEN 0 - 1
                                 ELSE IF ok /\ op.name = "execute" THEN 0
                                 ELSE IF ok /\ op.name \in FetchOps /\ @ >= 0
                                      THEN @ + Len(recs[t])
                                 ELSE @]
    /\ UNCHANGED pqvars
    /\ UNCHANGED <<kind, wire, broken, portal, described, todo, exc, recs, ncalls, script, warned>>

\* __iter__ / __aiter__ hands the next row of the batch to the loop body.
Yield(t) ==
    /\ pc[t] = "yield" /\ recs[t] # <<>>
    /\ pos[t] < MaxPos
    /\ pos' = [pos EXCEPT ![t] = @ + 1]
    /\ call' = [call EXCEPT ![t].rows = Append(@, Head(recs[t]))]
    /\ recs' = [recs EXCEPT ![t] = Tail(@)]
    /\ given' = [given EXCEPT ![t] = IF @ >= 0 THEN @ + 1 ELSE @]
    /\ UNCHANGED pqvars
    /\ UNCHANGED <<kind, lock, wire, broken, portal, closed, described, pc, todo, exc, ncalls,
                   script, warned>>

\* Faulty variant: the iteration stops only after a batch with no row.
iter_done_on_empty(n) == n = 0

\* The test that ends __iter__ / __aiter__ after a batch of n rows.
iter_done(n) == n < IterSize

\* The batch is used up: a short batch ends the iteration, a full one is followed
\* by the next pass of the loop, which enters the `with` block again.
NextBatch(t) ==
    /\ pc[t] = "yield" /\ recs[t] = <<>>
    /\ IF iter_done(call[t].batch)
       THEN /\ pc' = [pc EXCEPT ![t] = "idle"]
            /\ call' = [call EXCEPT ![t].outcome = "ok"]
            /\ UNCHANGED <<lock, todo>>
       ELSE /\ pos[t] + IterSize <= MaxPos
            /\ with_enter(t, "iter")
            /\ pc' = [pc EXCEPT ![t] = "gen"]
            /\ todo' = [todo EXCEPT ![t] = GenOf(t, call[t].op)]
            /\ UNCHANGED call
    /\ UNCHANGED pqvars
    /\ UNCHANGED <<kind, wire, broken, portal, closed, described, pos, exc, recs, ncalls, given, script, warned>>

-----------------------------------------------------------------------------

\* The binding-level object is not part of a run of the cursors.
NoPGconn ==
    /\ pgconn_ptr = 0
    /\ ptr0 = 0
    /\ finish_p = 0
    /\ pqpc = "idle"
    /\ finished = <<>>
    /\ pgres = <<>>
    /\ pqlog = <<>>

NoCall ==
    [rows |-> <<>>, op |-> Op("", 0, "", FALSE), outcome |-> "", cmds |-> <<>>,
     batch |-> 0, pos0 |-> 0, closed0 |-> FALSE, described0 |-> FALSE]

\* Two cursor objects have just been created on a connection; the server may
\* already hold a portal of their name, declared by an ordinary query.
Init ==
    /\ kind \in Kinds
    /\ lock = 0
    /\ wire = <<>>
    /\ broken = FALSE
    /\ portal \in {NoPortal, [exists |-> TRUE, p |-> 0, scroll |-> TRUE]}
    /\ closed = [t \in Callers |-> FALSE]
    /\ described = [t \in Callers |-> FALSE]
    /\ pos = [t \in Callers |-> 0]
    /\ pc = [t \in Callers |-> "idle"]
    /\ call = [t \in Callers |-> NoCall]
    /\ todo = [t \in Callers |-> <<>>]
    /\ exc = [t \in Callers |-> ""]
    /\ recs = [t \in Callers |-> <<>>]
    /\ ncalls = 0
    /\ given = [t \in Callers |-> 0 - 1]
    /\ script = <<>>
    /\ warned = [t \in Callers |-> ""]
    /\ NoPGconn

Next ==
    \E t \in Callers :
        \/ execute(t)
        \/ fetchone(t)
        \/ fetchmany(t)
        \/ fetchall(t)
        \/ iter(t)
        \/ scroll(t)
        \/ close(t)
        \/ start_query(t)
        \/ check_mode(t)
        \/ Send(t)
        \/ RecvResult(t)
        \/ RecvIOError(t)
        \/ Exit(t)
        \/ Yield(t)
        \/ NextBatch(t)

Spec == Init /\ [][Next]_vars

-----------------------------------------------------------------------------
(* One caller running a script of calls on its cursor, as the tests do: the *)
(* calls are made in the script's order, each after the one before it has   *)
(* returned or raised.  The object's destruction ends a script.             *)

\* Fetch calls after execute in a fetch script.
MaxFetches == 3
\* Calls before the destruction in a lifecycle script.
MaxLife == 3

\* Faulty variant: destruction warns about every cursor.
del_warns_always(c) == TRUE

\* The test of __del__: a warning is due when the cursor is not closed.
del_warns(c) == ~c

\* __del__: the object is destroyed; nothing is sent and nothing is raised.
del(t) ==
    /\ Idle(t)
    /\ ncalls < Budget
    /\ ncalls' = ncalls + 1
    /\ warned' = [warned EXCEPT
                    ![t] = IF del_warns(closed[t]) THEN "ResourceWarning" ELSE "none"]
    /\ pc' = [pc EXCEPT ![t] = "gone"]
    /\ UNCHANGED pqvars
    /\ UNCHANGED <<kind, lock, wire, broken, portal, closed, described, pos, call, todo,
                   exc, recs, given, script>>

Seqs(S, n) == UNION {[1 .. m -> S] : m \in 0 .. n}

Execute(scrollable) == Op("execute", 0, "", scrollable)
FetchOne == Op("fetchone", 1, "", FALSE)
FetchMany(size) == Op("fetchmany", size, "", FALSE)
FetchAll == Op("fetchall", 0, "", FALSE)
Scroll(value) == Op("scroll", value, "relative", FALSE)
Close == Op("close", 0, "", FALSE)
CtxExit == Op("__exit__", 0, "", FALSE)
Del == Op("__del__", 0, "", FALSE)

\* execute, then fetchone / fetchmany(k) / fetchall in any order.
FetchCalls == {FetchOne, FetchAll} \cup {FetchMany(k) : k \in 1 .. NRows}
FetchScripts == {<<Execute(FALSE)>> \o fs : fs \in Seqs(FetchCalls, MaxFetches)}

\* test_scrollable: scroll to the last row but one, then, once per row,
\* scroll(-1), fetchone(), scroll(-1).
TestScrollable ==
    <<Execute(TRUE), Scroll(NRows - 1)>>
        \o [i \in 1 .. 3 * (NRows - 1) |-> IF i % 3 = 2 THEN FetchOne ELSE Scroll(0 - 1)]

\* The same walk with one scroll(-1) before each fetchone().
AlternatingScroll ==
    <<Execute(TRUE), Scroll(NRows - 1)>>
        \o [i \in 1 .. 2 * (NRows - 1) |-> IF i % 2 = 0 THEN FetchOne ELSE Scroll(0 - 1)]

\* test_non_scrollable, followed by a forward fetch.
TestNonScrollable ==
    {<<Execute(FALSE), Scroll(NRows - 1), Scroll(0 - 1), f>> : f \in {FetchOne, FetchAll}}

\* The life of a cursor object: some calls, close() or the end of a `with`
\* block among them, and then its destruction.
LifeCalls == {Execute(FALSE), FetchOne, Close, CtxExit}
LifeScripts == {ls \o <<Del>> : ls \in Seqs(LifeCalls, MaxLife)}

Scripts ==
    FetchScripts \cup {TestScrollable, AlternatingScroll} \cup TestNonScrollable
        \cup LifeScripts

\* The caller that runs the script.
ScriptCallers == {1}

InitScript ==
    /\ kind \in Kinds
    /\ lock = 0
    /\ wire = <<>>
    /\ broken = FALSE
    /\ portal \in {NoPortal, [exists |-> TRUE, p |-> 0, scroll |-> TRUE]}
    /\ closed = [t \in Callers |-> FALSE]
    /\ described = [t \in Callers |-> FALSE]
    /\ pos = [t \in Callers |-> 0]
    /\ pc = [t \in Callers |-> "idle"]
    /\ call = [t \in Callers |-> NoCall]
    /\ todo = [t \in Callers |-> <<>>]
    /\ exc = [t \in Callers |-> ""]
    /\ recs = [t \in Callers |-> <<>>]
    /\ ncalls = 0
    /\ given = [t \in Callers |-> 0 - 1]
    /\ script \in Scripts
    /\ warned = [t \in Callers |-> ""]
    /\ NoPGconn

\* The scripted caller makes the next call of its script.
ScriptCall(t) ==
    /\ ncalls < Len(script)
    /\ script[ncalls + 1].name # "__del__"
    /\ Begin(t, script[ncalls + 1])

\* The script ends: the cursor object is destroyed.
ScriptDel(t) ==
    /\ ncalls < Len(script)
    /\ script[ncalls + 1].name = "__del__"
    /\ del(t)

NextScript ==
    \E t \in ScriptCallers :
        \/ ScriptCall(t)
        \/ ScriptDel(t)
        \/ start_query(t)
        \/ check_mode(t)
        \/ Send(t)
        \/ RecvResult(t)
        \/ RecvIOError(t)
        \/ Exit(t)

SpecScript == InitScript /\ [][NextScript]_vars

-----------------------------------------------------------------------------
(* The libpq binding: one PGconn object of pq_ctypes and its owner, which   *)
(* calls exec_ and finish() and at last drops the object.  finish() is two  *)
(* statements: the swap of the stored handle with None, and the release.    *)

\* PGconn methods called before the object is dropped.
MaxPqCalls == 4
\* Handles PQconnectdb may return; 0 stands for NULL / None.
Handles == {1, 2}
PqCommands == {"", "select 1", "set timezone to utc", "wat"}

\* impl.PQexec(handle, command): NULL when no result object could be
\* allocated, else a result whose status depends on the command.
PQexec(handle, command, alloc) ==
    IF ~alloc THEN "NULL"
    ELSE IF command = "" THEN "EMPTY_QUERY"
    ELSE IF command = "wat" THEN "FATAL_ERROR"
    ELSE IF command = "select 1" THEN "TUPLES_OK"
    ELSE "COMMAND_OK"

\* Faulty variant: exec_ raises for a fatal result as well.
exec_result_raises_fatal(rv) ==
    IF rv = "NULL" THEN "MemoryError" ELSE IF rv = "FATAL_ERROR" THEN "PQerror" ELSE rv

\* What exec_ does with rv: raise MemoryError for None, else wrap the result.
exec_result(rv) == IF rv = "NULL" THEN "MemoryError" ELSE rv

\* Faulty variant: finish() releases the handle and keeps it stored.
finish_ptr_kept(ptr) == ptr

\* The value finish() stores in self.pgconn_ptr.
finish_ptr(ptr) == 0

\* The first statement of finish(): self.pgconn_ptr, p = None, self.pgconn_ptr.
finish_swap(next) ==
    /\ pqpc = "idle"
    /\ finish_p' = pgconn_ptr
    /\ pgconn_ptr' = finish_ptr(pgconn_ptr)
    /\ pqpc' = next
    /\ UNCHANGED <<ptr0, finished, pgres>>
    /\ UNCHANGED curvars

\* An explicit finish() call.
finish ==
    /\ Len(pqlog) < MaxPqCalls
    /\ pqlog' = Append(pqlog, "finish")
    /\ finish_swap("finish")

\* __del__: the object has become unreachable and calls finish().
PGconn_del ==
    /\ pqlog' = Append(pqlog, "__del__")
    /\ finish_swap("del")

\* The second statement of finish(): if p is not None: impl.PQfinish(p).
finish_release ==
    /\ pqpc \in {"finish", "del"}
    /\ finished' = IF finish_p # 0 THEN Append(finished, finish_p) ELSE finished
    /\ finish_p' = 0
    /\ pqpc' = IF pqpc = "del" THEN "gone" ELSE "idle"
    /\ UNCHANGED <<pgconn_ptr, ptr0, pgres, pqlog>>
    /\ UNCHANGED curvars

\* exec_(command) on a connection that holds its handle.
exec_ ==
    /\ pqpc = "idle" /\ pgconn_ptr # 0
    /\ Len(pqlog) < MaxPqCalls
    /\ pqlog' = Append(pqlog, "exec_")
    /\ \E command \in PqCommands, alloc \in BOOLEAN :
          LET rv == PQexec(pgconn_ptr, command, alloc)
          IN  pgres' = <<command, rv, exec_result(rv)>>
    /\ UNCHANGED <<pgconn_ptr, ptr0, finish_p, pqpc, finished>>
    /\ UNCHANGED curvars

\* PGconn(pgconn_ptr): the object stores whatever the connect call returned.
InitPq ==
    /\ kind = "sync"
    /\ lock = 0
    /\ wire = <<>>
    /\ broken = FALSE
    /\ portal = NoPortal
    /\ closed = [t \in Callers |-> FALSE]
    /\ described = [t \in Callers |-> FALSE]
    /\ pos = [t \in Callers |-> 0]
    /\ pc = [t \in Callers |-> "idle"]
    /\ call = [t \in Callers |-> NoCall]
    /\ todo = [t \in Callers |-> <<>>]
    /\ exc = [t \in Callers |-> ""]
    /\ recs = [t \in Callers |-> <<>>]
    /\ ncalls = 0
    /\ given = [t \in Callers |-> 0 - 1]
    /\ script = <<>>
    /\ warned = [t \in Callers |-> ""]
    /\ ptr0 \in Handles \cup {0}
    /\ pgconn_ptr = ptr0
    /\ finish_p = 0
    /\ pqpc = "idle"
    /\ finished = <<>>
    /\ pgres = <<>>
    /\ pqlog = <<>>

NextPq ==
    \/ finish
    \/ exec_
    \/ PGconn_del
    \/ finish_release

SpecPq == InitPq /\ [][NextPq]_vars

-----------------------------------------------------------------------------
(* Properties.                                                              *)

Other(t) == CHOOSE u \in Callers : u # t
Errors == {"InterfaceError", "ValueError", "DatabaseError", "OperationalError"}
Returned(t) == Idle(t) /\ call[t].outcome \in Errors \cup {"ok"}
IsPrefix(a, b) == Len(a) <= Len(b) /\ \A i \in 1 .. Len(a) : a[i] = b[i]
\* The num argument the facade method gives to _fetch_gen.
NumOf(op) ==
    IF op.name = "fetchone" THEN <<1>>
    ELSE IF op.name = "fetchall" THEN <<>> ELSE <<op.n>>
\* rs is a run of consecutive rows of the result set.
Consecutive(rs) ==
    /\ \A i \in 1 .. Len(rs) : rs[i] \in 1 .. NRows
    /\ \A i \in 1 .. Len(rs) - 1 : rs[i + 1] = rs[i] + 1

\* C1: at most one command is in flight on the connection and the round trips
\* of two callers' operations never interleave: whoever drives a generator
\* holds the connection's lock, so at most one caller is inside a generator,
\* and every command on the wire was sent by the lock's holder.
C1_Serialized ==
    /\ \A t \in Callers : pc[t] = "gen" => lock = t
    /\ \A t, u \in Callers : pc[t] = "gen" /\ pc[u] = "gen" => t = u
    /\ \A i \in 1 .. Len(wire) : wire[i].by = lock

\* C1 witness: one caller is in the middle of a round trip while the other is
\* in the middle of an iteration.
C1_Witness ==
    \E t \in Callers :
        /\ pc[t] = "gen" /\ wire # <<>> /\ Head(wire).by = t
        /\ pc[Other(t)] = "yield" /\ recs[Other(t)] # <<>>

\* C2: a command is sent only after the results of the command before it were
\* drained: never more than one command is outstanding, and the caller that
\* sent the outstanding command is waiting for its results.
C2_SendAfterDrain ==
    /\ Len(wire) <= 1
    /\ \A i \in 1 .. Len(wire) :
          LET t == wire[i].by
          IN  pc[t] = "gen" /\ (exc[t] = "" => todo[t] # <<>> /\ Head(todo[t]).k = "recv")

\* C2 witness: the describe of an execute is on the wire, its declare drained.
C2_Witness ==
    \E t \in Callers :
        /\ call[t].op.name = "execute" /\ pc[t] = "gen"
        /\ Len(call[t].cmds) = 2
        /\ wire = <<[cmd |-> DescribeCmd, by |-> t]>>

\* C3: the lock is released on every exit path: a caller that is not inside a
\* `with` block (its call returned or raised, or it is between two batches of
\* an iteration) does not hold the lock.
C3_LockReleased ==
    /\ \A t \in Callers : pc[t] # "gen" => lock # t
    /\ lock # 0 => lock \in Callers /\ pc[lock] = "gen"

\* C3 witness: a call has raised the invalid-mode ValueError and the other
\* caller's call has raised after a failed round trip; the lock is free.
C3_Witness ==
    \E t \in Callers :
        /\ Returned(t) /\ call[t].outcome = "ValueError"
        /\ Returned(Other(t)) /\ call[Other(t)].outcome \in {"DatabaseError", "OperationalError"}
        /\ lock = 0

\* C4, as claimed: close() on a cursor that is not closed leaves it closed,
\* also when the close command fails.
C4_CloseAlwaysCloses ==
    \A t \in Callers :
        Returned(t) /\ call[t].op.name = "close" /\ ~call[t].closed0 => closed[t]

\* C5, as claimed: a second close() never raises and the cursor stays closed.
C5_CloseIdempotent ==
    \A t \in Callers :
        Returned(t) /\ call[t].op.name = "close" /\ call[t].closed0
            => call[t].outcome = "ok" /\ closed[t]

\* C6, as claimed: fetch, scroll and execute on a closed cursor, and scroll on
\* a cursor that was never declared, raise without sending any command.
C6_StateErrorIsLocal ==
    \A t \in Callers :
        LET c == call[t]
        IN  \/ c.closed0 /\ c.op.name \in FetchOps \cup {"scroll", "execute"}
            \/ c.op.name = "scroll" /\ ~c.described0
            => /\ c.cmds = <<>>
               /\ Returned(t) => c.outcome \in Errors

\* C7: scroll with a mode other than relative and absolute raises ValueError,
\* sends nothing, and leaves the row offset and the described flag as they were.
C7_BadModeRejected ==
    \A t \in Callers :
        LET c == call[t]
        IN  c.op.name = "scroll" /\ c.op.mode \notin {"relative", "absolute"}
            => /\ c.cmds = <<>>
               /\ pos[t] = c.pos0
               /\ described[t] = c.described0
               /\ closed[t] = c.closed0
               /\ Returned(t) => c.outcome = "ValueError"
               /\ c.outcome \in {"running", "ValueError"}

\* C7 witness: a scroll with mode "wat" has raised on a closed cursor.
C7_Witness ==
    \E t \in Callers :
        /\ Returned(t) /\ call[t].op.name = "scroll" /\ call[t].op.mode = "wat"
        /\ call[t].outcome = "ValueError" /\ call[t].closed0

\* C8: a successful execute has sent the declare and then the describe and
\* leaves the cursor described; a fetch on a described cursor sends the fetch
\* command only and returns a run of consecutive rows.
C8_ExecuteDescribes ==
    \A t \in Callers :
        LET c == call[t]
        IN  /\ Returned(t) /\ c.op.name = "execute" /\ c.outcome = "ok"
               => /\ described[t]
                  /\ c.cmds = <<DeclareCmd(c.op.scrollable), DescribeCmd>>
            /\ c.op.name = "execute" /\ ~described[t] => c.outcome # "ok"
            /\ c.op.name \in FetchOps /\ c.described0
               => /\ IsPrefix(c.cmds, <<FetchCmd(NumOf(c.op))>>)
                  /\ c.outcome = "ok" => c.cmds # <<>> /\ Consecutive(c.rows)

\* C8 witness: a caller's execute (no scroll) was followed by its fetchone,
\* which sent one fetch and returned the first row.
C8_Witness ==
    \E t \in Callers :
        /\ ncalls = 2 /\ call[Other(t)].outcome = ""
        /\ portal.exists /\ ~portal.scroll
        /\ Returned(t) /\ call[t].op.name = "fetchone" /\ call[t].outcome = "ok"
        /\ call[t].described0
        /\ call[t].cmds = <<FetchCmd(<<1>>)>> /\ call[t].rows = <<1>>

\* C9: the first fetch on a cursor object that has not described its portal
\* sends a describe and then the fetch, and succeeds when the portal exists
\* and the connection works; a fetch on a described cursor sends no describe;
\* the rows of each fetch are consecutive rows of the portal.
C9_AdoptedFetch ==
    \A t \in Callers :
        LET c == call[t]
        IN  c.op.name \in FetchOps
            => /\ ~c.described0
                  => /\ IsPrefix(c.cmds, <<DescribeCmd, FetchCmd(NumOf(c.op))>>)
                     /\ c.outcome = "ok"
                        => c.cmds = <<DescribeCmd, FetchCmd(NumOf(c.op))>> /\ described[t]
               /\ c.described0 => \A i \in 1 .. Len(c.cmds) : c.cmds[i].tag = "fetch"
               /\ c.outcome = "ok" => Consecutive(c.rows)
               /\ pc[t] = "gen" /\ exc[t] = "DatabaseError" => ~portal.exists
               /\ exc[t] = "InterfaceError" /\ c.outcome \in {"running", "InterfaceError"}
                  => c.closed0 /\ ~c.described0

\* C9 witness: on a cursor that never ran execute, a first fetchone returned
\* row 1 and the second fetchone, with no describe, returned row 2.
C9_Witness ==
    \E t \in Callers :
        /\ ncalls = 2 /\ call[Other(t)].outcome = ""
        /\ Returned(t) /\ call[t].op.name = "fetchone" /\ call[t].outcome = "ok"
        /\ call[t].described0 /\ call[t].pos0 = 1
        /\ call[t].cmds = <<FetchCmd(<<1>>)>> /\ call[t].rows = <<2>>

\* C10, as claimed: after a successful scroll the row offset is the value
\* (absolute) or the previous offset plus the value (relative), for both facades.
C10_ScrollSetsOffset ==
    \A t \in Callers :
        LET c == call[t]
        IN  Returned(t) /\ c.op.name = "scroll" /\ c.outcome = "ok"
            => pos[t] = IF c.op.mode = "absolute" THEN c.op.n ELSE c.pos0 + c.op.n

\* The row offset a facade of kind k holds after the call c returned.
AfterPos(k, c) ==
    IF c.outcome # "ok" THEN c.pos0
    ELSE IF c.op.name \in FetchOps THEN fetch_pos(c.op.name, c.pos0, c.rows)
    ELSE IF c.op.name = "scroll" THEN scroll_pos(k, c.pos0, c.op.n, c.op.mode)
    ELSE c.pos0

\* C11, as claimed: the blocking and the cooperative facade leave the same
\* client-side state after every step: whatever call has returned, the row
\* offset the cursor holds is the one either facade computes for that call from
\* the same starting offset, arguments and server answers.
C11_FacadesAgree ==
    \A t \in Callers :
        LET c == call[t]
        IN  Returned(t) /\ c.op.name \in FetchOps \cup {"execute", "scroll", "close"}
            => \A k \in Kinds : pos[t] = AfterPos(k, c)

\* C13: every fetchone, fetchmany and fetchall call on a described cursor sends
\* one fetch command and no other command: never more than one, and the call
\* that returns has sent it, also when it returns no row because the portal is
\* exhausted.
C13_OneFetchPerCall ==
    \A t \in Callers :
        LET c == call[t]
        IN  c.op.name \in FetchOps /\ c.described0
            => /\ Len(c.cmds) <= 1
               /\ \A i \in 1 .. Len(c.cmds) : c.cmds[i] = FetchCmd(NumOf(c.op))
               /\ Returned(t) => c.cmds = <<FetchCmd(NumOf(c.op))>>

\* C13 witness: after execute and fetchall the portal is exhausted; the
\* fetchone that follows has sent its fetch command and returned no row.
C13_Witness ==
    \E t \in Callers :
        /\ Returned(t) /\ call[t].op.name = "fetchone" /\ call[t].outcome = "ok"
        /\ call[t].described0 /\ call[t].pos0 = NRows
        /\ call[t].rows = <<>>
        /\ call[t].cmds = <<FetchCmd(<<1>>)>>
        /\ portal.exists /\ portal.p = NRows + 1

\* The fetch commands among cs.
Fetches(cs) == SelectSeq(cs, LAMBDA x : x.tag = "fetch")

\* C14: an iteration with itersize k that no other caller's call interferes
\* with sends only `fetch forward k` commands (after the describe of an adopted
\* portal), yields consecutive rows, and when it ends it has yielded every
\* remaining row up to the last one with one round trip per full batch plus
\* one for the first short batch; right after execute it yields all the rows
\* (with k = 2 over 3 rows: 2 round trips, batches of 2 and 1).
C14_IterBatches ==
    \A t \in Callers :
        LET c == call[t]
            done == Returned(t) /\ c.outcome = "ok"
        IN  c.op.name = "iter" /\ call[Other(t)] = NoCall
            => /\ \A i \in 1 .. Len(c.cmds) :
                     \/ c.cmds[i] = FetchCmd(<<IterSize>>)
                     \/ i = 1 /\ ~c.described0 /\ c.cmds[i] = DescribeCmd
               /\ Consecutive(c.rows)
               /\ done => /\ portal.p = NRows + 1
                          /\ c.rows # <<>> => c.rows[Len(c.rows)] = NRows
                          /\ Len(Fetches(c.cmds)) = (Len(c.rows) \div IterSize) + 1
               /\ done /\ c.described0 /\ c.pos0 = 0 /\ ncalls = 2
                  => c.rows = Range(1, NRows)

\* C14 witness: execute, then an iteration that yielded every row and ended
\* after the first short batch.
C14_Witness ==
    \E t \in Callers :
        /\ ncalls = 2 /\ call[Other(t)] = NoCall
        /\ Returned(t) /\ call[t].op.name = "iter" /\ call[t].outcome = "ok"
        /\ call[t].described0 /\ call[t].pos0 = 0
        /\ call[t].rows = Range(1, NRows)
        /\ call[t].cmds = [i \in 1 .. (NRows \div IterSize) + 1 |-> FetchCmd(<<IterSize>>)]

\* C15: the row offset is 0 after a successful execute; a returned fetchone
\* advances it by one when it returns a row and leaves it alone when it returns
\* None; fetchmany and fetchall advance it by the number of rows they return;
\* during an iteration it is the offset the iteration started from plus the
\* rows yielded so far; and as long as no scroll was called it is the number
\* of rows handed to the caller since execute.  The first and the last part
\* are stated for a cursor whose portal no other cursor object acts on.
C15_RowNumber ==
    \A t \in Callers :
        LET c == call[t]
            ok == Returned(t) /\ c.outcome = "ok"
        IN  /\ ok /\ c.op.name = "fetchone"
               => Len(c.rows) <= 1 /\ pos[t] = c.pos0 + Len(c.rows)
            /\ ok /\ c.op.name \in {"fetchmany", "fetchall"}
               => pos[t] = c.pos0 + Len(c.rows)
            /\ c.op.name = "iter" => pos[t] = c.pos0 + Len(c.rows)
            /\ call[Other(t)] = NoCall
               => /\ ok /\ c.op.name = "execute" => pos[t] = 0
                  /\ given[t] >= 0 => pos[t] = given[t]

\* C15 witness: execute, fetchall, and a fetchone that returned None: the
\* offset is still the number of rows, all returned by the fetchall.
C15_Witness ==
    \E t \in Callers :
        /\ ncalls = 3 /\ call[Other(t)] = NoCall
        /\ Returned(t) /\ call[t].op.name = "fetchone" /\ call[t].outcome = "ok"
        /\ call[t].rows = <<>> /\ call[t].pos0 = NRows
        /\ given[t] = NRows /\ pos[t] = NRows

\* The number of rows a fetch call asks for.
Asked(op) ==
    IF op.name = "fetchone" THEN 1 ELSE IF op.name = "fetchall" THEN NRows ELSE op.n

\* C12: on a cursor declared by execute, in any sequence of fetchone,
\* fetchmany(k) and fetchall calls, each call returns the rows that follow the
\* ones returned before it, in result order: min(k, rows remaining) rows for
\* fetchmany(k), at most one for fetchone, all the remaining ones for
\* fetchall, and none once the result is exhausted.
C12_FetchSequence ==
    \A t \in Callers :
        LET c == call[t]
            before == given[t] - Len(c.rows)
        IN  /\ script \in FetchScripts
            /\ Returned(t) /\ c.op.name \in FetchOps /\ c.outcome = "ok"
            /\ given[t] >= 0
            => /\ before >= 0
               /\ c.rows = Range(before + 1, Min(before + Asked(c.op), NRows))

\* C12 witness: execute and three fetchmany(NRows - 1): the third one has
\* returned no row, the two before it all the rows.
C12_Witness ==
    \E t \in Callers :
        /\ script = <<Execute(FALSE), FetchMany(NRows - 1), FetchMany(NRows - 1),
                      FetchMany(NRows - 1)>>
        /\ ncalls = 4 /\ Returned(t) /\ call[t].outcome = "ok"
        /\ call[t].rows = <<>> /\ call[t].cmds = <<FetchCmd(<<NRows - 1>>)>>
        /\ given[t] = NRows

\* C16, as claimed: on a scrollable cursor, after scroll(NRows - 1),
\* alternating scroll(-1) and fetchone() returns the rows in descending order:
\* the i-th fetchone returns row NRows - i (of six rows 0..5: 4, 3, 2, 1, 0).
C16_AlternatingDescends ==
    \A t \in Callers :
        LET c == call[t]
        IN  /\ script = AlternatingScroll
            /\ Returned(t) /\ c.op.name = "fetchone" /\ c.outcome = "ok"
            => c.rows = <<NRows - ((ncalls - 2) \div 2)>>

\* C16, amended: on a scrollable cursor, after scroll(NRows - 1), passes of
\* scroll(-1), fetchone(), scroll(-1) return the rows in descending order: the
\* fetchone of the i-th pass returns row NRows - i, and it does return a row
\* unless the connection was lost.
C16_TestScrollable ==
    \A t \in Callers :
        LET c == call[t]
        IN  /\ script = TestScrollable
            /\ Returned(t) /\ c.op.name = "fetchone"
            => /\ c.outcome = "ok" => c.rows = <<NRows - ((ncalls - 1) \div 3)>>
               /\ ~broken => c.outcome = "ok"

\* C16 witness: the last fetchone of test_scrollable has returned the first row.
C16_Witness ==
    \E t \in Callers :
        /\ script = TestScrollable /\ ncalls = Len(script) - 1
        /\ Returned(t) /\ call[t].op.name = "fetchone" /\ call[t].outcome = "ok"
        /\ call[t].rows = <<1>>
        /\ portal.exists /\ portal.scroll /\ portal.p = 1

\* C17: on a cursor declared with scrollable = False (test_non_scrollable), the
\* forward scroll succeeds; the scroll(-1) that follows is sent to the server
\* and raises the error the server answers with (in the model "DatabaseError"
\* is the error built from a fatal result, "OperationalError" a lost
\* connection), leaving the cursor open, described and at the same offset; the
\* fetch after the failure returns the next row forward.
C17_NonScrollable ==
    \A t \in Callers :
        LET c == call[t]
        IN  script \in TestNonScrollable /\ Returned(t) /\ c.described0
            => /\ ncalls = 2 /\ ~broken => c.outcome = "ok"
               /\ ncalls = 3 => /\ c.outcome \in {"DatabaseError", "OperationalError"}
                                /\ ~broken => c.outcome = "DatabaseError"
                                /\ c.cmds = <<MoveCmd(0 - 1, "relative")>>
                                /\ pos[t] = c.pos0
               /\ ~closed[t] /\ described[t]
               /\ ncalls = 4 /\ ~broken => c.outcome = "ok" /\ c.rows = <<NRows>>

\* C17 witness: after the backward scroll failed, fetchone has returned the
\* last row of the cursor declared without scroll.
C17_Witness ==
    \E t \in Callers :
        /\ script \in TestNonScrollable /\ ncalls = 4
        /\ Returned(t) /\ call[t].op.name = "fetchone" /\ call[t].outcome = "ok"
        /\ call[t].described0 /\ call[t].rows = <<NRows>>
        /\ portal.exists /\ ~portal.scroll /\ ~closed[t]

\* C18: a destroyed cursor object has emitted a ResourceWarning if and only if
\* it was not closed when it was destroyed; an object whose last call was a
\* close() or a context-manager exit that succeeded is destroyed without a
\* warning; the destruction sends nothing and does not take the lock.
C18_DelWarning ==
    \A t \in Callers :
        LET c == call[t]
        IN  pc[t] = "gone"
            => /\ warned[t] \in {"ResourceWarning", "none"}
               /\ warned[t] = "ResourceWarning" <=> ~closed[t]
               /\ c.op.name \in CloseOps /\ c.outcome = "ok" => warned[t] = "none"
               /\ wire = <<>> /\ lock = 0

\* C18 witness: test_warn_close: a cursor is destroyed after its execute, with
\* no close: the warning was emitted.
C18_Witness ==
    \E t \in Callers :
        /\ script = <<Execute(FALSE), Del>> /\ pc[t] = "gone"
        /\ call[t].outcome = "ok" /\ described[t] /\ portal.exists /\ ~closed[t]
        /\ warned[t] = "ResourceWarning"

\* C19, as claimed: once __exit__ / __aexit__ has run, whether the body of the
\* block ended normally or by an exception, the cursor is closed and the
\* server holds no portal of its name.
C19_ExitCloses ==
    \A t \in Callers :
        Returned(t) /\ call[t].op.name = "__exit__"
            => closed[t] /\ ~portal.exists

\* C20: for a PGconn constructed with a non-null handle, PQfinish is never
\* called on anything but that handle and never twice: at every moment the
\* handle is in exactly one place (still stored, held by the running
\* finish(), or released); after any finish() returned it has been released
\* once and the stored handle is None, and it stays so through every later
\* finish(); when the destructor is done the handle has been released once.
C20_ReleasedOnce ==
    ptr0 # 0
    => /\ pgconn_ptr \in {0, ptr0} /\ finish_p \in {0, ptr0}
       /\ finished \in {<<>>, <<ptr0>>}
       /\ (IF pgconn_ptr # 0 THEN 1 ELSE 0) + (IF finish_p # 0 THEN 1 ELSE 0)
             + Len(finished) = 1
       /\ pqpc = "idle" /\ (\E i \in 1 .. Len(pqlog) : pqlog[i] = "finish")
          => pgconn_ptr = 0 /\ finished = <<ptr0>>
       /\ pqpc = "gone" => pgconn_ptr = 0 /\ finished = <<ptr0>>

\* C20 witness: two explicit finish() calls and then the destructor have run
\* on a PGconn that held a handle, which was released once.
C20_Witness ==
    /\ ptr0 # 0 /\ pqpc = "gone"
    /\ pqlog = <<"finish", "finish", "__del__">>
    /\ finished = <<ptr0>> /\ pgconn_ptr = 0

\* C21: exec_ returns a result for every command the server answers, with the
\* status the server gave it: fatal-error for a rejected command, empty-query
\* for an empty one; it raises, and then MemoryError, exactly when PQexec
\* returned no result object.
C21_FatalIsReturned ==
    pgres # <<>>
    => LET command == pgres[1]
           rv == pgres[2]
           out == pgres[3]
       IN  /\ out = "MemoryError" <=> rv = "NULL"
           /\ rv # "NULL" => out = rv
           /\ out \in {"MemoryError", "EMPTY_QUERY", "TUPLES_OK", "COMMAND_OK", "FATAL_ERROR"}
           /\ rv # "NULL" /\ command = "wat" => out = "FATAL_ERROR"
           /\ rv # "NULL" /\ command = "" => out = "EMPTY_QUERY"

\* C21 witness: exec_ of a command the server rejected has returned a result
\* whose status is fatal-error.
C21_Witness ==
    /\ pgres = <<"wat", "FATAL_ERROR", "FATAL_ERROR">>
    /\ pqpc = "idle" /\ pgconn_ptr # 0 /\ pqlog # <<>> /\ pqlog[Len(pqlog)] = "exec_"

\* A declare sent by t's execute is answered while a portal of its name exists.
DeclareCollides(t) ==
    /\ pc[t] = "gen" /\ call[t].op.name = "execute"
    /\ wire # <<>> /\ Head(wire).by = t /\ Head(wire).cmd.tag = "declare"
    /\ portal.exists
    /\ wire' = Tail(wire)

\* C22: an execute succeeds only by declaring: a successful execute has sent
\* a declare first, and a declare that reaches the server while a portal of
\* the name exists (a second execute without a close, or a foreign portal)
\* is refused: the call raises, the portal is left as it was and the cursor's
\* state does not change; an execute the server refused has sent nothing but
\* its declare and returns the server's error.
C22_DeclareFromUnbound ==
    /\ [](\A t \in Callers :
            LET c == call[t]
            IN  Returned(t) /\ c.op.name = "execute"
                => /\ c.outcome = "ok" => c.cmds # <<>> /\ c.cmds[1].tag = "declare"
                   /\ c.outcome = "DatabaseError"
                      => Len(c.cmds) = 1 /\ c.cmds[1].tag = "declare")
    /\ [][\A t \in Callers :
            DeclareCollides(t)
                => /\ exc'[t] \in {"DatabaseError", "OperationalError"}
                   /\ ~broken' => exc'[t] = "DatabaseError"
                   /\ portal' = portal
                   /\ described'[t] = described[t] /\ closed'[t] = closed[t]
                   /\ pos'[t] = pos[t]]_vars

\* C22 witness: the second execute on a cursor object that had declared its
\* portal has raised the server's error, having sent only its declare.
C22_Witness ==
    \E t \in Callers :
        /\ ncalls = 2 /\ call[Other(t)] = NoCall
        /\ Returned(t) /\ call[t].op.name = "execute" /\ call[t].described0
        /\ call[t].outcome = "DatabaseError"
        /\ Len(call[t].cmds) = 1 /\ call[t].cmds[1].tag = "declare"
        /\ portal.exists /\ ~closed[t]

\* t is inside a call that makes two round trips: an execute, or the first
\* fetch of a cursor object that has not described its portal.
TwoTrips(t) ==
    /\ pc[t] = "gen"
    /\ \/ call[t].op.name = "execute"
       \/ call[t].op.name \in FetchOps \cup {"iter"} /\ ~call[t].described0

\* C23: from its entry to its exit a call that makes two round trips holds
\* the lock without a break, and while it does no other caller sends a
\* command or enters a generator: the wire carries this call's commands only.
C23_OneHold ==
    /\ [](\A t \in Callers :
            TwoTrips(t)
                => /\ lock = t
                   /\ pc[Other(t)] # "gen"
                   /\ \A i \in 1 .. Len(wire) : wire[i].by = t)
    /\ [][\A t \in Callers :
            TwoTrips(t)
                => /\ pc'[t] = "gen" => lock' = t
                   /\ call'[Other(t)].cmds = call[Other(t)].cmds
                   /\ pc'[Other(t)] # "gen"]_vars

\* C23 witness: the describe of a first fetch on an adopted portal is drained
\* and its fetch not sent yet, while the other caller is in the middle of an
\* iteration whose next batch needs the lock.
C23_Witness ==
    \E t \in Callers :
        /\ TwoTrips(t) /\ call[t].op.name = "fetchone"
        /\ call[t].cmds = <<DescribeCmd>> /\ wire = <<>> /\ exc[t] = ""
        /\ described[t] /\ lock = t
        /\ pc[Other(t)] = "yield"

\* The caller u that is inside a generator can take its next step.
CanStep(u) ==
    \/ Finished(u)
    \/ Running(u) /\ (Head(todo[u]).k = "recv" => wire # <<>>)

\* C24: a caller that iterates holds the lock while a batch is fetched and not
\* while the rows of a batch are handed to its loop body; the lock is then
\* free or held by a call that can run to its end, so a command issued
\* meanwhile on the same connection is not blocked for ever; such a command
\* and the fetch of a batch never run inside one another.
C24_LockFreeInLoopBody ==
    /\ [](\A t \in Callers :
            call[t].op.name = "iter"
                => /\ pc[t] = "yield" => lock # t
                   /\ pc[t] = "yield" /\ lock # 0
                      => lock = Other(t) /\ pc[Other(t)] = "gen" /\ CanStep(Other(t))
                   /\ pc[t] = "gen" => lock = t /\ pc[Other(t)] # "gen" /\ CanStep(t))
    /\ [][\A t \in Callers :
            call[t].op.name = "iter" /\ pc[t] = "yield" /\ pc[Other(t)] = "gen"
                => pc'[t] # "gen"]_vars

\* C24 witness: a row of a full batch has been handed to the loop body and
\* more are to come, and another command is in the middle of its round trip on
\* the same connection.
C24_Witness ==
    \E t \in Callers :
        /\ call[t].op.name = "iter" /\ pc[t] = "yield"
        /\ call[t].batch = IterSize /\ Len(call[t].rows) = 1 /\ recs[t] # <<>>
        /\ pc[Other(t)] = "gen" /\ lock = Other(t)
        /\ wire # <<>> /\ Head(wire).by = Other(t)

\* The describe commands among cs.
Describes(cs) == SelectSeq(cs, LAMBDA x : x.tag = "describe")

\* C25: described is false at construction and never goes back to false; it
\* becomes true only in the step that drains, without error, the results of a
\* describe its own cursor sent, while its caller holds the lock; a fetch or an
\* iteration on a described cursor sends no describe, and one on a cursor not
\* yet described sends at most one.
C25_DescribedMonotone ==
    /\ \A t \in Callers : ~described[t]
    /\ [](\A t \in Callers :
            LET c == call[t]
            IN  c.op.name \in FetchOps \cup {"iter"}
                => /\ Len(Describes(c.cmds)) <= 1
                   /\ c.described0 => Describes(c.cmds) = <<>>)
    /\ [][\A t \in Callers :
            /\ described[t] => described'[t]
            /\ described'[t] # described[t]
               => /\ lock = t /\ pc[t] = "gen"
                  /\ wire # <<>> /\ Head(wire) = [cmd |-> DescribeCmd, by |-> t]
                  /\ wire' = Tail(wire)
                  /\ exc'[t] = "" /\ ~broken']_vars

\* C25 witness: an iteration over an adopted portal has ended after several
\* batches, having described the portal once, before its first batch.
C25_Witness ==
    \E t \in Callers :
        /\ Returned(t) /\ call[t].op.name = "iter" /\ call[t].outcome = "ok"
        /\ ~call[t].described0 /\ described[t]
        /\ Len(call[t].cmds) >= 3 /\ call[t].cmds[1] = DescribeCmd
        /\ Len(Describes(call[t].cmds)) = 1

\* C26: while a scroll or a fetch is inside its round trips the row offset is
\* the one the call started from, and it still is when the call has raised;
\* the offset changes only in the step that ends a call whose generator
\* finished without an exception, or when an iteration yields a row.
C26_FailureKeepsOffset ==
    /\ [](\A t \in Callers :
            LET c == call[t]
            IN  c.op.name \in FetchOps \cup {"scroll"}
                => /\ pc[t] = "gen" => pos[t] = c.pos0
                   /\ Returned(t) /\ c.outcome \in Errors => pos[t] = c.pos0)
    /\ [][\A t \in Callers :
            pos'[t] # pos[t]
                => \/ pc[t] = "gen" /\ todo[t] = <<>> /\ exc[t] = "" /\ pc'[t] # "gen"
                   \/ pc[t] = "yield"]_vars

\* C26 witness: on the blocking facade, after two rows were fetched, a
\* scroll(-1) was refused by the server: the offset is still 2.
C26_Witness ==
    \E t \in Callers :
        /\ kind = "sync"
        /\ Returned(t) /\ call[t].op.name = "scroll" /\ call[t].op.mode = "relative"
        /\ call[t].op.n = 0 - 1 /\ call[t].outcome = "DatabaseError"
        /\ call[t].pos0 = 2 /\ pos[t] = 2

====
